---- MODULE Spec2Model ----
(***************************************************************************)
(* Curation pipeline of the weekly playlist generator.                     *)
(*                                                                         *)
(* Part 1: StateManager.apply_retention (src/src/state/manager.py), the    *)
(*         TTL store of first-seen timestamps.                             *)
(* Part 2: Deduplicator.deduplicate / group_by_album                       *)
(*         (src/src/filters/deduplication.py) and the trimming step of     *)
(*         main (src/src/main.py, Phase 6).                                *)
(*                                                                         *)
(* Time is counted in ticks; TicksPerDay ticks make one day, so that the   *)
(* whole-day truncation of timedelta.days is visible.  A persisted date    *)
(* string is a record [valid, t]: fromisoformat raises ValueError on a     *)
(* string with valid = FALSE.  A Spotify URI is the tuple of its           *)
(* colon-separated segments.                                               *)
(***************************************************************************)
EXTENDS Integers, Sequences, FiniteSets, TLC

VARIABLES
    state,          \* StateManager.state: [track_history, last_run]
    clock,          \* last value returned by datetime.now()
    monotone,       \* TRUE while no clock read was earlier than the one before
    op,             \* last operation performed
    items,          \* argument of the last apply_retention call
    old_history,    \* track_history on entry to the last apply_retention call
    cutoff_date,    \* local cutoff_date of the last apply_retention call
    now,            \* local now of the last apply_retention call
    current_items,  \* main's current_items: the list returned by
                    \* apply_retention, reassigned by the trimming step
    pc,             \* phase of main reached by the run
    target,         \* configured TARGET_PLAYLIST_SIZE
    all_items,      \* main's all_items: the matcher's output
    priority_items, \* main's priority_items
    unique_items,   \* main's unique_items
    grouped_items,  \* main's grouped_items
    untrimmed_items,\* current_items on entry to the trimming step
    final_items,    \* main's final_items
    filter_config,  \* arguments GenreFilter was constructed with
    genre_filter,   \* the GenreFilter: [include, exclude]
    all_releases,   \* main's all_releases: the argument of filter
    filtered_releases, \* main's filtered_releases: the result of filter
    scraper_index,  \* position in main's scrapers list of the next scraper
    scraper_results,\* main's scraper_results
    scrape_log,     \* per scraper run so far: did it raise, what it returned
    match_log,      \* per match_release call: the release, what the search
                    \* found, the items returned
    state_file,     \* content of data/state.json
    loaded_file,    \* content of data/state.json when the run started
    saves,          \* number of save_state calls of the run
    output_file,    \* the playlist file of the run: written or not, its items
    runs            \* two runs of main on one state.json: for each its
                    \* position and its StateManager's state

retentionVars == <<state, clock, monotone, op, items, old_history, cutoff_date,
                   now>>

mainVars == <<pc, target, all_items, priority_items, unique_items,
              grouped_items, untrimmed_items, final_items>>

fileVars == <<match_log, state_file, loaded_file, saves, output_file, runs>>

frontVars == <<filter_config, genre_filter, all_releases, filtered_releases,
               scraper_index, scraper_results, scrape_log, fileVars>>

vars == <<state, clock, monotone, op, items, old_history, cutoff_date, now,
          current_items, pc, target, all_items, priority_items, unique_items,
          grouped_items, untrimmed_items, final_items, filter_config,
          genre_filter, all_releases, filtered_releases, scraper_index,
          scraper_results, scrape_log, match_log, state_file, loaded_file,
          saves, output_file, runs>>

----------------------------------------------------------------------------
(* Bounds *)

TicksPerDay == 2
MaxDrift == 1
MaxItems == 2
MaxAllItems == 5
MaxTarget == 2
MaxTags == 3
MaxReleases == 3
RunTarget == 3

(* Program constants *)

RETENTION_WEEKS == 2
DaysPerWeek == 7

----------------------------------------------------------------------------
(* Values *)

None == [valid |-> FALSE, t |-> -1]
BadDate == [valid |-> FALSE, t |-> 0]

T1 == <<"spotify", "track", "t1">>
T2 == <<"spotify", "track", "t2">>
T3 == <<"spotify", "track", "t3">>
Q1 == <<"spotify", "search", "AB%20al">>
URIS == {T1, T2, Q1}
TRACK_URIS == {T1, T2}

SEARCH_PREFIX == <<"spotify", "search">>

BANDCAMP == "Bandcamp Daily"
BROOKLYN == "Brooklyn Vegan"
PITCHFORK == "Pitchfork Best New Tracks"
PITCHFORK_ALBUMS == "Pitchfork Best New Albums"
PITCHFORK_SUNDAY == "Pitchfork Sunday Review"
SOURCES == {BANDCAMP, BROOKLYN, PITCHFORK}

\* Python's order of the source names (str.__lt__)
StrRank == (BANDCAMP :> 1) @@ (BROOKLYN :> 2) @@ (PITCHFORK :> 4)
           @@ (PITCHFORK_ALBUMS :> 3) @@ (PITCHFORK_SUNDAY :> 5)

\* str.lower on the artist and album strings in use
lower == ("Ab" :> "ab") @@ ("AB" :> "ab") @@ ("cd" :> "cd") @@
         ("Al" :> "al") @@ ("al" :> "al") @@ ("" :> "")

\* artist, track and album the matcher attaches to each URI
Catalog ==
    (T1 :> [artist |-> "Ab", track |-> "one", album |-> "Al"]) @@
    (T2 :> [artist |-> "cd", track |-> "two", album |-> ""]) @@
    (T3 :> [artist |-> "Ab", track |-> "three", album |-> "Al"]) @@
    (Q1 :> [artist |-> "AB", track |-> "[Album: al]", album |-> "al"])

\* scraped_date each scraper stamps on its releases
ScrapedAt == (BANDCAMP :> "2026-01-05T08:00") @@ (BROOKLYN :> "2026-01-05T08:02")
             @@ (PITCHFORK :> "2026-01-05T08:01")
             @@ (PITCHFORK_ALBUMS :> "2026-01-05T08:03")
             @@ (PITCHFORK_SUNDAY :> "2026-01-05T08:04")

\* PlaylistItem(...) with __post_init__: empty sources become [source]
PlaylistItem(uri, src, weeks) ==
    [artist |-> Catalog[uri].artist,
     track |-> Catalog[uri].track,
     album |-> Catalog[uri].album,
     spotify_uri |-> uri,
     source |-> src,
     scraped_date |-> ScrapedAt[src],
     sources |-> <<src>>,
     weeks_in_playlist |-> weeks]

\* items handed to apply_retention by a direct caller: fresh tracks, and a
\* placeholder that carries a week count of its own
RetentionItems ==
    {PlaylistItem(u, BANDCAMP, 0) : u \in TRACK_URIS}
        \cup {PlaylistItem(u, BANDCAMP, 3) : u \in URIS \ TRACK_URIS}

\* items the matcher returns to main
MatchedItems ==
    {PlaylistItem(T1, src, 0) : src \in {BANDCAMP}}
        \cup {PlaylistItem(T2, src, 0) : src \in SOURCES}
        \cup {PlaylistItem(Q1, BANDCAMP, 0)}

TargetSizes == 1..MaxTarget

timedelta_weeks(w) == w * DaysPerWeek * TicksPerDay

Window == timedelta_weeks(RETENTION_WEEKS)

ClockValues == {0, Window, Window + TicksPerDay}

Range(s) == {s[i] : i \in 1..Len(s)}

Uris(s) == {s[i].spotify_uri : i \in 1..Len(s)}

Restrict(f, S) == [x \in S |-> f[x]]

----------------------------------------------------------------------------
(* datetime helpers *)

isoformat(d) == [valid |-> TRUE, t |-> d]

IsIsoFormat(s) == s.valid

fromisoformat(s) == s.t

days(delta) == delta \div TicksPerDay

startswith(uri, prefix) ==
    /\ Len(uri) >= Len(prefix)
    /\ SubSeq(uri, 1, Len(prefix)) = prefix

----------------------------------------------------------------------------
(* StateManager.apply_retention *)

IsExpired_Inclusive(date_str, cutoff) ==
    IF IsIsoFormat(date_str) THEN fromisoformat(date_str) <= cutoff ELSE TRUE

IsExpired(date_str, cutoff) ==
    IF IsIsoFormat(date_str) THEN fromisoformat(date_str) < cutoff ELSE TRUE

PurgeExpired_Keep(history, cutoff) == history

PurgeExpired(history, cutoff) ==
    Restrict(history, {u \in DOMAIN history : ~IsExpired(history[u], cutoff)})

IsSearchUri_WrongPrefix(uri) == startswith(uri, <<"manual">>)

IsSearchUri(uri) == startswith(uri, SEARCH_PREFIX)

AddNew(history, uri, now_str) ==
    IF uri \notin DOMAIN history THEN history @@ (uri :> now_str) ELSE history

WithinWindow(added_date, cutoff) == added_date >= cutoff

WeeksInPlaylist_OneBased(n, added_date) ==
    days(n - added_date) \div DaysPerWeek + 1

WeeksInPlaylist(n, added_date) == days(n - added_date) \div DaysPerWeek

ProcessItem(acc, item, cutoff, n) ==
    LET uri == item.spotify_uri
        h   == AddNew(acc.history, uri, isoformat(n))
    IN  IF IsSearchUri(uri)
        THEN [acc EXCEPT !.current = Append(@, item)]
        ELSE IF IsIsoFormat(h[uri])
        THEN IF WithinWindow(fromisoformat(h[uri]), cutoff)
             THEN [history |-> h,
                   current |-> Append(acc.current,
                       [item EXCEPT !.weeks_in_playlist =
                           WeeksInPlaylist(n, fromisoformat(h[uri]))])]
             ELSE [history |-> h, current |-> acc.current]
        ELSE [history |-> [h EXCEPT ![uri] = isoformat(n)],
              current |-> Append(acc.current,
                                 [item EXCEPT !.weeks_in_playlist = 0])]

RECURSIVE ProcessItems(_, _, _, _)
ProcessItems(acc, its, cutoff, n) ==
    IF its = <<>> THEN acc
    ELSE ProcessItems(ProcessItem(acc, Head(its), cutoff, n), Tail(its),
                      cutoff, n)

\* the items are processed against the stored history and the purge comes last
apply_retention_PurgeLast(history, its, now1, now2) ==
    LET cutoff == now1 - timedelta_weeks(RETENTION_WEEKS)
        r      == ProcessItems([history |-> history, current |-> <<>>], its,
                               cutoff, now2)
    IN  [history |-> PurgeExpired(r.history, cutoff), current |-> r.current]

apply_retention(history, its, now1, now2) ==
    LET cutoff == now1 - timedelta_weeks(RETENTION_WEEKS)
        purged == PurgeExpired(history, cutoff)
    IN  ProcessItems([history |-> purged, current |-> <<>>], its, cutoff, now2)

----------------------------------------------------------------------------
(* Deduplicator *)

RECURSIVE FirstOccurrences(_)
\* keys of uri_groups in insertion order
FirstOccurrences(its) ==
    IF its = <<>> THEN <<>>
    ELSE LET rest == FirstOccurrences(SubSeq(its, 1, Len(its) - 1))
             u    == its[Len(its)].spotify_uri
         IN  IF \E i \in 1..Len(rest) : rest[i] = u THEN rest
             ELSE Append(rest, u)

\* uri_groups[uri]
UriGroup(its, uri) == SelectSeq(its, LAMBDA it : it.spotify_uri = uri)

RECURSIVE sorted(_)
\* sorted(list(all_sources))
sorted(S) ==
    IF S = {} THEN <<>>
    ELSE LET m == CHOOSE x \in S : \A y \in S : StrRank[x] <= StrRank[y]
         IN  <<m>> \o sorted(S \ {m})

AllSources(group) == UNION {Range(group[i].sources) : i \in 1..Len(group)}

RECURSIVE InEncounterOrder(_)
InEncounterOrder(srcs) ==
    IF srcs = <<>> THEN <<>>
    ELSE LET rest == InEncounterOrder(SubSeq(srcs, 1, Len(srcs) - 1))
         IN  IF srcs[Len(srcs)] \in Range(rest) THEN rest
             ELSE Append(rest, srcs[Len(srcs)])

merge_items_Unsorted(group) ==
    IF Len(group) = 1 THEN group[1]
    ELSE [group[1] EXCEPT !.sources =
             InEncounterOrder([i \in 1..Len(group) |-> group[i].source])]

merge_items_Last(group) ==
    IF Len(group) = 1 THEN group[1]
    ELSE [group[Len(group)] EXCEPT !.sources = sorted(AllSources(group))]

merge_items(group) ==
    IF Len(group) = 1 THEN group[1]
    ELSE [group[1] EXCEPT !.sources = sorted(AllSources(group))]

\* position of x in a list sorted by len(sources) descending, after the
\* elements that compare equal (list.sort is stable, also with reverse=True)
\* an item is put in front of the items with the same number of sources
InsertBySourceCount_BeforeEqual(srt, x) ==
    LET k == Cardinality({i \in 1..Len(srt) :
                             Len(srt[i].sources) > Len(x.sources)})
    IN  SubSeq(srt, 1, k) \o <<x>> \o SubSeq(srt, k + 1, Len(srt))

InsertBySourceCount(srt, x) ==
    LET k == Cardinality({i \in 1..Len(srt) :
                             Len(srt[i].sources) >= Len(x.sources)})
    IN  SubSeq(srt, 1, k) \o <<x>> \o SubSeq(srt, k + 1, Len(srt))

RECURSIVE SortBySourceCount(_)
SortBySourceCount(its) ==
    IF its = <<>> THEN <<>>
    ELSE InsertBySourceCount(SortBySourceCount(SubSeq(its, 1, Len(its) - 1)),
                             its[Len(its)])

\* every matched item kept, duplicates of an identifier included
deduplicate_KeepAll(its) ==
    LET order  == FirstOccurrences(its)
        merged == [i \in 1..Len(order) |-> merge_items(UriGroup(its, order[i]))]
        prio   == SelectSeq(merged,
                      LAMBDA m : Len(UriGroup(its, m.spotify_uri)) > 1)
    IN  [priority_items |-> SortBySourceCount(prio),
         unique_items |-> its]

deduplicate(its) ==
    LET order  == FirstOccurrences(its)
        merged == [i \in 1..Len(order) |-> merge_items(UriGroup(its, order[i]))]
        prio   == SelectSeq(merged,
                      LAMBDA m : Len(UriGroup(its, m.spotify_uri)) > 1)
    IN  [priority_items |-> SortBySourceCount(prio),
         unique_items |-> merged]

AlbumKey(item) == <<lower[item.artist], lower[item.album]>>

RECURSIVE AlbumOrder(_)
AlbumOrder(its) ==
    IF its = <<>> THEN <<>>
    ELSE LET rest == AlbumOrder(SubSeq(its, 1, Len(its) - 1))
             key  == AlbumKey(its[Len(its)])
         IN  IF \E i \in 1..Len(rest) : rest[i] = key THEN rest
             ELSE Append(rest, key)

RECURSIVE Flatten(_, _)
Flatten(its, keys) ==
    IF keys = <<>> THEN <<>>
    ELSE SelectSeq(its, LAMBDA it : AlbumKey(it) = Head(keys))
            \o Flatten(its, Tail(keys))

group_by_album_Identity(its) == its

\* the groups are emitted from the last key seen to the first
group_by_album_KeysReversed(its) ==
    LET keys == AlbumOrder(its)
    IN  Flatten(its, [i \in 1..Len(keys) |-> keys[Len(keys) + 1 - i]])

group_by_album(its) == Flatten(its, AlbumOrder(its))

----------------------------------------------------------------------------
(* main, Phase 6: trim to target size *)

PriorityUris(priority) == Uris(priority)

PriorityInCurrent(current, priority) ==
    SelectSeq(current, LAMBDA i : i.spotify_uri \in PriorityUris(priority))

Others(current, priority) ==
    SelectSeq(current, LAMBDA i : i.spotify_uri \notin PriorityUris(priority))

\* list[:n] for n >= 0
Take(s, n) == SubSeq(s, 1, IF n < Len(s) THEN n ELSE Len(s))

Trim_NoTruncate(current, priority, size) ==
    IF Len(current) > size
    THEN LET priority_in_current == PriorityInCurrent(current, priority)
             others == Others(current, priority)
             slots_for_others == size - Len(priority_in_current)
         IN  IF slots_for_others > 0
             THEN priority_in_current \o Take(others, slots_for_others)
             ELSE priority_in_current
    ELSE current

Trim_Naive(current, priority, size) == Take(current, size)

Trim_AlwaysPartition(current, priority, size) ==
    LET priority_in_current == PriorityInCurrent(current, priority)
        others == Others(current, priority)
        slots_for_others == size - Len(priority_in_current)
    IN  IF slots_for_others > 0
        THEN priority_in_current \o Take(others, slots_for_others)
        ELSE Take(priority_in_current, size)

Trim(current, priority, size) ==
    IF Len(current) > size
    THEN LET priority_in_current == PriorityInCurrent(current, priority)
             others == Others(current, priority)
             slots_for_others == size - Len(priority_in_current)
         IN  IF slots_for_others > 0
             THEN priority_in_current \o Take(others, slots_for_others)
             ELSE Take(priority_in_current, size)
    ELSE current

----------------------------------------------------------------------------
(* GenreFilter.  A genre string is the tuple of its characters, so that     *)
(* str.lower and the substring test `a in b` are computed.                  *)

\* config.INCLUDE_GENRES
INCLUDE_GENRES == <<
    <<"p", "u", "n", "k">>,
    <<"h", "a", "r", "d", "c", "o", "r", "e">>,
    <<"p", "o", "s", "t", "-", "p", "u", "n", "k">>,
    <<"p", "o", "s", "t", " ", "p", "u", "n", "k">>,
    <<"e", "m", "o">>,
    <<"s", "k", "a", " ", "p", "u", "n", "k">>,
    <<"r", "&", "b">>,
    <<"r", "n", "b">>,
    <<"s", "o", "u", "l">>,
    <<"n", "e", "o", "-", "s", "o", "u", "l">>,
    <<"n", "e", "o", " ", "s", "o", "u", "l">>,
    <<"p", "o", "p">>,
    <<"i", "n", "d", "i", "e", " ", "p", "o", "p">>,
    <<"s", "y", "n", "t", "h", " ", "p", "o", "p">>,
    <<"s", "y", "n", "t", "h", "p", "o", "p">>,
    <<"a", "r", "t", " ", "p", "o", "p">>,
    <<"d", "r", "e", "a", "m", " ", "p", "o", "p">>,
    <<"r", "o", "c", "k">>,
    <<"i", "n", "d", "i", "e", " ", "r", "o", "c", "k">>,
    <<"a", "l", "t", "e", "r", "n", "a", "t", "i", "v", "e">>,
    <<"g", "a", "r", "a", "g", "e", " ", "r", "o", "c", "k">>,
    <<"p", "s", "y", "c", "h", " ", "r", "o", "c", "k">>,
    <<"p", "s", "y", "c", "h", "e", "d", "e", "l", "i", "c">>,
    <<"s", "h", "o", "e", "g", "a", "z", "e">>,
    <<"n", "o", "i", "s", "e", " ", "r", "o", "c", "k">>,
    <<"g", "r", "u", "n", "g", "e">>,
    <<"m", "e", "t", "a", "l">>,
    <<"d", "e", "a", "t", "h", " ", "m", "e", "t", "a", "l">>,
    <<"b", "l", "a", "c", "k", " ", "m", "e", "t", "a", "l">>,
    <<"d", "o", "o", "m", " ", "m", "e", "t", "a", "l">>,
    <<"t", "h", "r", "a", "s", "h">>,
    <<"s", "l", "u", "d", "g", "e">>,
    <<"s", "t", "o", "n", "e", "r", " ", "m", "e", "t", "a", "l">>,
    <<"h", "e", "a", "v", "y", " ", "m", "e", "t", "a", "l">>,
    <<"h", "a", "r", "d", "c", "o", "r", "e">>,
    <<"e", "l", "e", "c", "t", "r", "o", "n", "i", "c">>,
    <<"u", "k", " ", "g", "a", "r", "a", "g", "e">>,
    <<"d", "r", "u", "m", " ", "a", "n", "d", " ", "b", "a", "s", "s">>,
    <<"d", "n", "b">>,
    <<"d", "&", "b">>,
    <<"j", "u", "n", "g", "l", "e">>,
    <<"f", "o", "o", "t", "w", "o", "r", "k">>,
    <<"j", "u", "k", "e">>,
    <<"h", "o", "u", "s", "e">>,
    <<"t", "e", "c", "h", "n", "o">>,
    <<"a", "m", "b", "i", "e", "n", "t">>,
    <<"e", "x", "p", "e", "r", "i", "m", "e", "n", "t", "a", "l", " ", "e", "l", "e", "c", "t", "r", "o", "n", "i", "c">>,
    <<"i", "d", "m">>,
    <<"b", "r", "e", "a", "k", "b", "e", "a", "t">>,
    <<"g", "r", "i", "m", "e">>,
    <<"d", "u", "b", "s", "t", "e", "p">>
    >>

\* config.EXCLUDE_GENRES
EXCLUDE_GENRES == <<
    <<"p", "r", "o", "g", " ", "m", "e", "t", "a", "l">>,
    <<"p", "r", "o", "g", "r", "e", "s", "s", "i", "v", "e", " ", "m", "e", "t", "a", "l">>,
    <<"p", "r", "o", "g", " ", "r", "o", "c", "k">>,
    <<"p", "r", "o", "g", "r", "e", "s", "s", "i", "v", "e", " ", "r", "o", "c", "k">>,
    <<"e", "d", "m">>,
    <<"b", "i", "g", " ", "r", "o", "o", "m">>,
    <<"f", "e", "s", "t", "i", "v", "a", "l">>,
    <<"b", "r", "o", "s", "t", "e", "p">>,
    <<"m", "a", "i", "n", "s", "t", "r", "e", "a", "m", " ", "e", "d", "m">>,
    <<"f", "u", "t", "u", "r", "e", " ", "b", "a", "s", "s">>
    >>

UpperToLower ==
    ("A" :> "a") @@ ("B" :> "b") @@ ("C" :> "c") @@ ("D" :> "d") @@ ("E" :> "e") @@ ("F" :> "f") @@
    ("G" :> "g") @@ ("H" :> "h") @@ ("I" :> "i") @@ ("J" :> "j") @@ ("K" :> "k") @@ ("L" :> "l") @@
    ("M" :> "m") @@ ("N" :> "n") @@ ("O" :> "o") @@ ("P" :> "p") @@ ("Q" :> "q") @@ ("R" :> "r") @@
    ("S" :> "s") @@ ("T" :> "t") @@ ("U" :> "u") @@ ("V" :> "v") @@ ("W" :> "w") @@ ("X" :> "x") @@
    ("Y" :> "y") @@ ("Z" :> "z")

\* str.lower
lower_str(g) ==
    [i \in 1..Len(g) |-> IF g[i] \in DOMAIN UpperToLower THEN UpperToLower[g[i]]
                         ELSE g[i]]

lower_all(gs) == [i \in 1..Len(gs) |-> lower_str(gs[i])]

\* a in b
contains(a, b) ==
    \E i \in 1..(Len(b) - Len(a) + 1) : SubSeq(b, i, i + Len(a) - 1) = a

\* `given or default`
OrDefault(given, default) == IF given = <<>> THEN default ELSE given

\* GenreFilter.__init__
GenreFilterInit(include_genres, exclude_genres) ==
    [include |-> lower_all(OrDefault(include_genres, INCLUDE_GENRES)),
     exclude |-> lower_all(OrDefault(exclude_genres, EXCLUDE_GENRES))]

\* one pass of the nested loops: some genre and some pattern match in either
\* direction
AnyMatch(release_genres, patterns) ==
    \E gi \in 1..Len(release_genres), pi \in 1..Len(patterns) :
        \/ contains(patterns[pi], release_genres[gi])
        \/ contains(release_genres[gi], patterns[pi])

should_include_IncludeFirst(gf, release) ==
    LET release_genres == lower_all(release.genres)
    IN  IF release_genres = <<>> THEN TRUE
        ELSE IF AnyMatch(release_genres, gf.include) THEN TRUE
        ELSE IF AnyMatch(release_genres, gf.exclude) THEN FALSE
        ELSE IF Len(release_genres) >= 3 THEN FALSE
        ELSE TRUE

should_include(gf, release) ==
    LET release_genres == lower_all(release.genres)
    IN  IF AnyMatch(release_genres, gf.exclude) THEN FALSE
        ELSE IF release_genres = <<>> THEN TRUE
        ELSE IF AnyMatch(release_genres, gf.include) THEN TRUE
        ELSE IF Len(release_genres) >= 3 THEN FALSE
        ELSE TRUE

RECURSIVE RemoveWhileIterating(_, _, _)
RemoveWhileIterating(gf, releases, i) ==
    IF i > Len(releases) THEN releases
    ELSE IF should_include(gf, releases[i])
    THEN RemoveWhileIterating(gf, releases, i + 1)
    ELSE RemoveWhileIterating(gf,
             SubSeq(releases, 1, i - 1) \o SubSeq(releases, i + 1, Len(releases)),
             i + 1)

filter_RemoveWhileIterating(gf, releases) == RemoveWhileIterating(gf, releases, 1)

\* GenreFilter.filter
filter(gf, releases) ==
    SelectSeq(releases, LAMBDA release : should_include(gf, release))

TagPunk == <<"p", "u", "n", "k">>
TagMetal == <<"m", "e", "t", "a", "l">>
TagEdm == <<"E", "D", "M">>
TagJazz == <<"j", "a", "z", "z">>
TagFolk == <<"f", "o", "l", "k">>
TagProg == <<"p", "r", "o", "g">>
TagDreamPop == <<"d", "r", "e", "a", "m", " ", "p", "o", "p">>

TAGS == {TagPunk, TagMetal, TagEdm, TagJazz, TagFolk, TagProg, TagDreamPop}

\* a ScrapedRelease as a scraper builds it
ScrapedRelease(artist, title, src, release_type, genres) ==
    [artist |-> artist,
     title |-> title,
     source |-> src,
     release_type |-> release_type,
     url |-> "https://example.org/release",
     scraped_date |-> ScrapedAt[src],
     genres |-> genres]

TagLists == UNION {[1..n -> TAGS] : n \in 0..MaxTags}

\* releases that differ in their genre tags only
TaggedRelease(genres) == ScrapedRelease("Ab", "Al", BANDCAMP, "album", genres)

ReleaseMenu ==
    {TaggedRelease(g) : g \in {<<>>, <<TagPunk>>, <<TagEdm>>, <<TagMetal>>,
                               <<TagJazz, TagFolk, TagJazz>>,
                               <<TagPunk, TagEdm>>}}

ReleaseLists ==
    {<<TaggedRelease(g)>> : g \in TagLists}
        \cup UNION {[1..n -> ReleaseMenu] : n \in 0..MaxReleases}

\* constructor arguments; <<>> stands for an argument left out
FilterConfigs ==
    {[include_genres |-> <<>>, exclude_genres |-> <<>>],
     [include_genres |-> <<TagPunk>>, exclude_genres |-> <<lower_str(TagEdm)>>],
     [include_genres |-> <<<<"J", "a", "z", "z">>>>, exclude_genres |-> <<>>],
     [include_genres |-> <<>>, exclude_genres |-> <<TagFolk>>]}

\* value of a variable whose component is not part of the state machine
Absent == <<>>

----------------------------------------------------------------------------
(* SpotifyMatcher *)

\* what a catalog search can find for a release, keyed by <<artist, title>>
SpotifyAlbums == (<<"Ab", "Al">> :> <<T1, T3>>)

SpotifySongs == (<<"Ab", "one">> :> T1) @@ (<<"cd", "two">> :> T2)

\* f"{release.artist} {release.title}".replace(" ", "%20")
SearchTerm ==
    (<<"Ab", "Al">> :> "Ab%20Al") @@ (<<"AB", "al">> :> "AB%20al") @@
    (<<"Ab", "one">> :> "Ab%20one") @@ (<<"cd", "two">> :> "cd%20two")

\* f"[Album: {release.title}]"
AlbumLabel == ("Al" :> "[Album: Al]") @@ ("al" :> "[Album: al]")

NewPlaylistItem(artist, track, album, uri, src, scraped_date) ==
    [artist |-> artist,
     track |-> track,
     album |-> album,
     spotify_uri |-> uri,
     source |-> src,
     scraped_date |-> scraped_date,
     sources |-> <<src>>,
     weeks_in_playlist |-> 0]

\* a failed match returns no item at all
create_manual_search_item_Empty(release) == <<>>

create_manual_search_item(release) ==
    <<NewPlaylistItem(
        release.artist,
        IF release.release_type = "track" THEN release.title
        ELSE AlbumLabel[release.title],
        IF release.release_type = "album" THEN release.title ELSE "",
        <<"spotify", "search", SearchTerm[<<release.artist, release.title>>]>>,
        release.source,
        release.scraped_date)>>

FoundItem(uri, release) ==
    NewPlaylistItem(Catalog[uri].artist, Catalog[uri].track, Catalog[uri].album,
                    uri, release.source, release.scraped_date)

\* results of the search: <<>> when it fails or finds nothing
SearchResults(release) ==
    LET key == <<release.artist, release.title>>
    IN  {<<>>} \cup
        (IF release.release_type = "track"
         THEN IF key \in DOMAIN SpotifySongs THEN {<<SpotifySongs[key]>>} ELSE {}
         ELSE IF key \in DOMAIN SpotifyAlbums THEN {SpotifyAlbums[key]} ELSE {})

\* match_release, given what the search returned
match_release(release, found) ==
    IF found # <<>>
    THEN [i \in 1..Len(found) |-> FoundItem(found[i], release)]
    ELSE create_manual_search_item(release)

RECURSIVE MatchAll(_, _)
\* the loop of Phase 3: all_items.extend(items) for every release
MatchAll(releases, found) ==
    IF releases = <<>> THEN <<>>
    ELSE match_release(Head(releases), Head(found))
            \o MatchAll(Tail(releases), Tail(found))

----------------------------------------------------------------------------
(* Scrapers *)

\* main's scrapers list, by SOURCE_NAME
SCRAPERS == <<BANDCAMP, PITCHFORK_ALBUMS, PITCHFORK, PITCHFORK_SUNDAY, BROOKLYN>>

\* lists a scraper can return
ScrapeMenu ==
    (BANDCAMP :>
        {<<>>,
         <<ScrapedRelease("Ab", "Al", BANDCAMP, "album", <<TagPunk>>),
           ScrapedRelease("cd", "two", BANDCAMP, "track", <<>>)>>,
         <<ScrapedRelease("cd", "two", BANDCAMP, "track", <<TagEdm>>)>>}) @@
    (PITCHFORK_ALBUMS :>
        {<<>>,
         <<ScrapedRelease("AB", "al", PITCHFORK_ALBUMS, "album", <<>>)>>}) @@
    (PITCHFORK :>
        {<<>>,
         <<ScrapedRelease("Ab", "one", PITCHFORK, "track", <<TagPunk>>),
           ScrapedRelease("cd", "two", PITCHFORK, "track", <<TagJazz>>)>>,
         <<ScrapedRelease("Ab", "one", PITCHFORK, "track", <<TagMetal>>)>>}) @@
    (PITCHFORK_SUNDAY :> {<<>>}) @@
    (BROOKLYN :>
        {<<>>,
         <<ScrapedRelease("cd", "two", BROOKLYN, "track", <<TagEdm>>)>>})

----------------------------------------------------------------------------
(* Inputs *)

NoDupUris(s) == \A i, j \in 1..Len(s) : s[i].spotify_uri = s[j].spotify_uri => i = j

ItemLists ==
    {s \in UNION {[1..n -> RetentionItems] : n \in 0..MaxItems} : NoDupUris(s)}

AllItemLists == UNION {[1..n -> MatchedItems] : n \in 1..MaxAllItems}

LoadedHistories ==
    UNION {[S -> {BadDate}] : S \in SUBSET TRACK_URIS}

\* histories a previous run of main has saved
SavedHistories == {T1 :> isoformat(0)}

RunClockValues == {Window, Window + 1}

----------------------------------------------------------------------------
(* StateManager._load_state and save_state *)

NoHistory == <<>>

\* a state.json that holds a JSON object with the given keys
JsonFile(keys, track_history, last_run) ==
    [kind |-> "json", keys |-> keys, track_history |-> track_history,
     last_run |-> last_run]

\* no file, a file that cannot be read, a file that is not JSON, a file
\* whose JSON is not an object
OtherFile(kind) ==
    [kind |-> kind, keys |-> {}, track_history |-> NoHistory, last_run |-> None]

StateFiles ==
    {OtherFile(k) : k \in {"missing", "unreadable", "not_json", "json_array"}}
        \cup {JsonFile({"last_run"}, NoHistory, None)}
        \cup {JsonFile({"track_history", "last_run"}, h, None) :
                 h \in SavedHistories}

EmptyState == [track_history |-> NoHistory, last_run |-> None]

load_state(file) ==
    IF file.kind = "json"
    THEN [raised |-> FALSE,
          state |-> IF "track_history" \in file.keys
                    THEN [track_history |-> file.track_history,
                          last_run |-> file.last_run]
                    ELSE [last_run |-> file.last_run]]
    ELSE IF file.kind = "json_array"
    THEN [raised |-> TRUE, state |-> EmptyState]
    ELSE [raised |-> FALSE, state |-> EmptyState]

\* what save_state can leave in the file: the dumped state, the old content
\* when open fails, a cut-off text when the write fails
save_state(st, file) ==
    {JsonFile(DOMAIN st, st.track_history, st.last_run), file,
     OtherFile("not_json")}

----------------------------------------------------------------------------
(* State machine of the retention store: a sequence of apply_retention      *)
(* calls on one persisted state                                             *)

RetentionCall(its, now1, now2) ==
    LET r == apply_retention(state.track_history, its, now1, now2)
    IN  /\ state' = [track_history |-> r.history,
                     last_run |-> isoformat(now2)]
        /\ clock' = now2
        /\ monotone' = (monotone /\ now1 >= clock)
        /\ op' = "apply_retention"
        /\ items' = its
        /\ old_history' = state.track_history
        /\ cutoff_date' = now1 - timedelta_weeks(RETENTION_WEEKS)
        /\ now' = now2
        /\ current_items' = r.current

Init ==
    /\ state \in [track_history : LoadedHistories, last_run : {None}]
    /\ clock = 0
    /\ monotone = TRUE
    /\ op = "init"
    /\ items = <<>>
    /\ old_history = state.track_history
    /\ cutoff_date = 0
    /\ now = 0
    /\ current_items = <<>>
    /\ pc = "store"
    /\ target = 1
    /\ all_items = <<>>
    /\ priority_items = <<>>
    /\ unique_items = <<>>
    /\ grouped_items = <<>>
    /\ untrimmed_items = <<>>
    /\ final_items = <<>>
    /\ filter_config = Absent
    /\ genre_filter = Absent
    /\ all_releases = Absent
    /\ filtered_releases = Absent
    /\ scraper_index = 0
    /\ scraper_results = Absent
    /\ scrape_log = Absent
    /\ match_log = Absent
    /\ state_file = Absent
    /\ loaded_file = Absent
    /\ saves = 0
    /\ output_file = Absent
    /\ runs = Absent

ApplyRetention ==
    /\ pc = "store"
    /\ \E its \in ItemLists, now1 \in ClockValues, drift \in 0..MaxDrift :
          RetentionCall(its, now1, now1 + drift)
    /\ UNCHANGED <<mainVars, frontVars>>

Next == ApplyRetention

Spec == Init /\ [][Next]_vars

----------------------------------------------------------------------------
(* State machine of one run of main from Phase 4 on *)

\* the objects of unique_items that apply_retention kept are the objects it
\* updated: priority_items holds the same objects
SyncWeeks(its, kept) ==
    [i \in 1..Len(its) |->
        IF \E k \in 1..Len(kept) : kept[k].spotify_uri = its[i].spotify_uri
        THEN LET k == CHOOSE k \in 1..Len(kept) :
                          kept[k].spotify_uri = its[i].spotify_uri
             IN  [its[i] EXCEPT !.weeks_in_playlist = kept[k].weeks_in_playlist]
        ELSE its[i]]

MainInit ==
    /\ state \in [track_history : SavedHistories, last_run : {None}]
    /\ clock = 0
    /\ monotone = TRUE
    /\ op = "init"
    /\ items = <<>>
    /\ old_history = state.track_history
    /\ cutoff_date = 0
    /\ now = 0
    /\ current_items = <<>>
    /\ pc = "matched"
    /\ target \in TargetSizes
    /\ all_items \in AllItemLists
    /\ priority_items = <<>>
    /\ unique_items = <<>>
    /\ grouped_items = <<>>
    /\ untrimmed_items = <<>>
    /\ final_items = <<>>
    /\ filter_config = Absent
    /\ genre_filter = Absent
    /\ all_releases = Absent
    /\ filtered_releases = Absent
    /\ scraper_index = 0
    /\ scraper_results = Absent
    /\ scrape_log = Absent
    /\ match_log = Absent
    /\ state_file = Absent
    /\ loaded_file = Absent
    /\ saves = 0
    /\ output_file = Absent
    /\ runs = Absent

Phase4Deduplicate ==
    /\ pc = "matched"
    /\ LET d == deduplicate(all_items)
       IN  /\ priority_items' = d.priority_items
           /\ unique_items' = d.unique_items
           /\ grouped_items' = group_by_album(d.unique_items)
    /\ pc' = "deduplicated"
    /\ UNCHANGED <<retentionVars, current_items, target, all_items,
                   untrimmed_items, final_items>>
    /\ UNCHANGED frontVars

Phase5Retention ==
    /\ pc = "deduplicated"
    /\ "track_history" \in DOMAIN state
    /\ \E now1 \in RunClockValues, drift \in 0..MaxDrift :
          RetentionCall(grouped_items, now1, now1 + drift)
    /\ priority_items' = SyncWeeks(priority_items, current_items')
    /\ unique_items' = SyncWeeks(unique_items, current_items')
    /\ grouped_items' = SyncWeeks(grouped_items, current_items')
    /\ pc' = "retained"
    /\ UNCHANGED <<target, all_items, untrimmed_items, final_items>>
    /\ UNCHANGED frontVars

Phase6Trim ==
    /\ pc = "retained"
    /\ untrimmed_items' = current_items
    /\ current_items' = Trim(current_items, priority_items, target)
    /\ pc' = "trimmed"
    /\ UNCHANGED <<retentionVars, target, all_items, priority_items,
                   unique_items, grouped_items, final_items>>
    /\ UNCHANGED frontVars

\* the trimmed list handed on as it is
Regroup_NotReapplied ==
    /\ pc = "trimmed"
    /\ final_items' = current_items
    /\ pc' = "final"
    /\ UNCHANGED <<retentionVars, current_items, target, all_items,
                   priority_items, unique_items, grouped_items,
                   untrimmed_items>>
    /\ UNCHANGED frontVars

Regroup ==
    /\ pc = "trimmed"
    /\ final_items' = group_by_album(current_items)
    /\ pc' = "final"
    /\ UNCHANGED <<retentionVars, current_items, target, all_items,
                   priority_items, unique_items, grouped_items,
                   untrimmed_items>>
    /\ UNCHANGED frontVars

MainNext == Phase4Deduplicate \/ Phase5Retention \/ Phase6Trim \/ Regroup

MainSpec == MainInit /\ [][MainNext]_vars

----------------------------------------------------------------------------
(* State machine of a GenreFilter: construction, a filter call, and a       *)
(* second call on the result of the first                                   *)

GenreInit ==
    /\ state = [track_history |-> <<>>, last_run |-> None]
    /\ clock = 0
    /\ monotone = TRUE
    /\ op = "init"
    /\ items = <<>>
    /\ old_history = <<>>
    /\ cutoff_date = 0
    /\ now = 0
    /\ current_items = <<>>
    /\ pc = "constructed"
    /\ target = 1
    /\ all_items = <<>>
    /\ priority_items = <<>>
    /\ unique_items = <<>>
    /\ grouped_items = <<>>
    /\ untrimmed_items = <<>>
    /\ final_items = <<>>
    /\ filter_config \in FilterConfigs
    /\ genre_filter = GenreFilterInit(filter_config.include_genres,
                                      filter_config.exclude_genres)
    /\ all_releases = <<>>
    /\ filtered_releases = <<>>
    /\ scraper_index = 0
    /\ scraper_results = Absent
    /\ scrape_log = Absent
    /\ match_log = Absent
    /\ state_file = Absent
    /\ loaded_file = Absent
    /\ saves = 0
    /\ output_file = Absent
    /\ runs = Absent

FilterCall ==
    /\ pc = "constructed"
    /\ \E releases \in ReleaseLists :
          /\ all_releases' = releases
          /\ filtered_releases' = filter(genre_filter, releases)
    /\ pc' = "filtered"
    /\ UNCHANGED <<retentionVars, current_items, target, all_items,
                   priority_items, unique_items, grouped_items,
                   untrimmed_items, final_items, filter_config, genre_filter,
                   scraper_index, scraper_results, scrape_log, fileVars>>

FilterAgain ==
    /\ pc = "filtered"
    /\ all_releases' = filtered_releases
    /\ filtered_releases' = filter(genre_filter, filtered_releases)
    /\ pc' = "refiltered"
    /\ UNCHANGED <<retentionVars, current_items, target, all_items,
                   priority_items, unique_items, grouped_items,
                   untrimmed_items, final_items, filter_config, genre_filter,
                   scraper_index, scraper_results, scrape_log, fileVars>>

GenreNext == FilterCall \/ FilterAgain

GenreSpec == GenreInit /\ [][GenreNext]_vars

----------------------------------------------------------------------------
(* State machine of one run of main from its start *)

\* values of TARGET_PLAYLIST_SIZE a run is configured with
TargetConfigs == {0, RunTarget}

RunInit ==
    /\ state = Absent
    /\ clock = 0
    /\ monotone = TRUE
    /\ op = "init"
    /\ items = <<>>
    /\ old_history = <<>>
    /\ cutoff_date = 0
    /\ now = 0
    /\ current_items = <<>>
    /\ pc = "start"
    /\ target \in TargetConfigs
    /\ all_items = <<>>
    /\ priority_items = <<>>
    /\ unique_items = <<>>
    /\ grouped_items = <<>>
    /\ untrimmed_items = <<>>
    /\ final_items = <<>>
    /\ filter_config = [include_genres |-> <<>>, exclude_genres |-> <<>>]
    /\ genre_filter = GenreFilterInit(<<>>, <<>>)
    /\ all_releases = <<>>
    /\ filtered_releases = <<>>
    /\ scraper_index = 1
    /\ scraper_results = <<>>
    /\ scrape_log = <<>>
    /\ match_log = <<>>
    /\ state_file \in StateFiles
    /\ loaded_file = state_file
    /\ saves = 0
    /\ output_file = [written |-> FALSE, items |-> <<>>]
    /\ runs = Absent

backVars == <<retentionVars, current_items, target, all_items, priority_items,
              unique_items, grouped_items, untrimmed_items, final_items>>

\* StateManager(data_path / "state.json")
LoadState ==
    /\ pc = "start"
    /\ LET r == load_state(state_file)
       IN  IF r.raised
           THEN pc' = "load_failed" /\ UNCHANGED state
           ELSE pc' = "scraping" /\ state' = r.state
    /\ UNCHANGED <<clock, monotone, op, items, old_history, cutoff_date, now,
                   current_items, target, all_items, priority_items,
                   unique_items, grouped_items, untrimmed_items, final_items,
                   frontVars>>

\* the loop without its try/except: the exception ends the run
Phase1ScrapeRaises_Abort ==
    /\ pc = "scraping"
    /\ scraper_index <= Len(SCRAPERS)
    /\ scrape_log' = Append(scrape_log, [raised |-> TRUE, releases |-> <<>>])
    /\ scraper_index' = scraper_index + 1
    /\ pc' = "exited"
    /\ UNCHANGED <<backVars, filter_config, genre_filter, all_releases,
                   filtered_releases, scraper_results, fileVars>>

\* one iteration of the scraping loop whose scrape() raises
Phase1ScrapeRaises ==
    /\ pc = "scraping"
    /\ scraper_index <= Len(SCRAPERS)
    /\ scraper_results' = (SCRAPERS[scraper_index] :> 0) @@ scraper_results
    /\ scrape_log' = Append(scrape_log, [raised |-> TRUE, releases |-> <<>>])
    /\ scraper_index' = scraper_index + 1
    /\ UNCHANGED <<backVars, pc, filter_config, genre_filter, all_releases,
                   filtered_releases, fileVars>>

\* one iteration of the scraping loop whose scrape() returns
Phase1ScrapeReturns ==
    /\ pc = "scraping"
    /\ scraper_index <= Len(SCRAPERS)
    /\ \E releases \in ScrapeMenu[SCRAPERS[scraper_index]] :
          /\ scraper_results' =
                 (SCRAPERS[scraper_index] :> Len(releases)) @@ scraper_results
          /\ all_releases' = all_releases \o releases
          /\ scrape_log' = Append(scrape_log,
                                   [raised |-> FALSE, releases |-> releases])
    /\ scraper_index' = scraper_index + 1
    /\ UNCHANGED <<backVars, pc, filter_config, genre_filter,
                   filtered_releases, fileVars>>

\* the early return also saves the state
Phase1End_SavesOnExit ==
    /\ pc = "scraping"
    /\ scraper_index > Len(SCRAPERS)
    /\ pc' = IF all_releases = <<>> THEN "exited" ELSE "scraped"
    /\ IF all_releases = <<>>
       THEN /\ saves' = saves + 1
            /\ state_file' \in save_state(state, state_file)
       ELSE UNCHANGED <<saves, state_file>>
    /\ UNCHANGED <<backVars, filter_config, genre_filter, all_releases,
                   filtered_releases, scraper_index, scraper_results,
                   scrape_log, match_log, loaded_file, output_file, runs>>

\* end of Phase 1: return None when nothing was scraped
Phase1End ==
    /\ pc = "scraping"
    /\ scraper_index > Len(SCRAPERS)
    /\ pc' = IF all_releases = <<>> THEN "exited" ELSE "scraped"
    /\ UNCHANGED <<backVars, frontVars>>

Phase2Filter ==
    /\ pc = "scraped"
    /\ LET filtered == filter(genre_filter, all_releases)
       IN  filtered_releases' = IF filtered = <<>> THEN all_releases
                                ELSE filtered
    /\ pc' = "genre_filtered"
    /\ UNCHANGED <<backVars, filter_config, genre_filter, all_releases,
                   scraper_index, scraper_results, scrape_log, fileVars>>

Phase3Match ==
    /\ pc = "genre_filtered"
    /\ \E found \in [1..Len(filtered_releases) ->
                        UNION {SearchResults(filtered_releases[i]) :
                                  i \in 1..Len(filtered_releases)}] :
          /\ \A i \in 1..Len(found) :
                found[i] \in SearchResults(filtered_releases[i])
          /\ all_items' = MatchAll(filtered_releases, found)
          /\ match_log' =
                 [i \in 1..Len(found) |->
                     [release |-> filtered_releases[i],
                      found |-> found[i],
                      items |-> match_release(filtered_releases[i], found[i])]]
    /\ pc' = IF all_items' = <<>> THEN "exited" ELSE "matched"
    /\ UNCHANGED <<retentionVars, current_items, target, priority_items,
                   unique_items, grouped_items, untrimmed_items, final_items,
                   filter_config, genre_filter, all_releases,
                   filtered_releases, scraper_index, scraper_results,
                   scrape_log, state_file, loaded_file, saves, output_file,
                   runs>>

\* apply_retention on a loaded state that has no track_history: KeyError
Phase5RetentionRaises ==
    /\ pc = "deduplicated"
    /\ "track_history" \notin DOMAIN state
    /\ pc' = "crashed"
    /\ UNCHANGED <<retentionVars, current_items, target, all_items,
                   priority_items, unique_items, grouped_items,
                   untrimmed_items, final_items, frontVars>>

\* generate cannot write the playlist file and raises
Phase7OutputRaises ==
    /\ pc = "final"
    /\ pc' = "crashed"
    /\ UNCHANGED <<retentionVars, current_items, target, all_items,
                   priority_items, unique_items, grouped_items,
                   untrimmed_items, final_items, frontVars>>

\* Phase 7: generate the output, then save_state
Phase7Output ==
    /\ pc = "final"
    /\ output_file' = [written |-> TRUE, items |-> final_items]
    /\ saves' = saves + 1
    /\ state_file' \in save_state(state, state_file)
    /\ pc' = "done"
    /\ UNCHANGED <<retentionVars, current_items, target, all_items,
                   priority_items, unique_items, grouped_items,
                   untrimmed_items, final_items, filter_config, genre_filter,
                   all_releases, filtered_releases, scraper_index,
                   scraper_results, scrape_log, match_log, loaded_file,
                   runs>>

RunNext ==
    \/ LoadState
    \/ Phase1ScrapeRaises
    \/ Phase1ScrapeReturns
    \/ Phase1End
    \/ Phase2Filter
    \/ Phase3Match
    \/ Phase4Deduplicate
    \/ Phase5Retention
    \/ Phase5RetentionRaises
    \/ Phase6Trim
    \/ Regroup
    \/ Phase7Output
    \/ Phase7OutputRaises

RunSpec == RunInit /\ [][RunNext]_vars

----------------------------------------------------------------------------
(* State machine of two runs of main that overlap on one state.json: each   *)
(* run loads the file, calls apply_retention and saves                      *)

Runs == {1, 2}

\* files a previous run left, or none
PersistedFiles ==
    {OtherFile("missing")}
        \cup {JsonFile({"track_history", "last_run"}, h, isoformat(0)) :
                 h \in SavedHistories}

TwoRunInit ==
    /\ state = EmptyState
    /\ clock = 0
    /\ monotone = TRUE
    /\ op = "init"
    /\ items = <<>>
    /\ old_history = <<>>
    /\ cutoff_date = 0
    /\ now = 0
    /\ current_items = <<>>
    /\ pc = "two_runs"
    /\ target = 1
    /\ all_items = <<>>
    /\ priority_items = <<>>
    /\ unique_items = <<>>
    /\ grouped_items = <<>>
    /\ untrimmed_items = <<>>
    /\ final_items = <<>>
    /\ filter_config = Absent
    /\ genre_filter = Absent
    /\ all_releases = Absent
    /\ filtered_releases = Absent
    /\ scraper_index = 0
    /\ scraper_results = Absent
    /\ scrape_log = Absent
    /\ match_log = Absent
    /\ state_file \in PersistedFiles
    /\ loaded_file = state_file
    /\ saves = 0
    /\ output_file = Absent
    /\ runs = [r \in Runs |-> [pc |-> "start", state |-> EmptyState]]

twoRunFrame == <<state, monotone, op, items, old_history, cutoff_date, now,
                 current_items, mainVars, filter_config, genre_filter,
                 all_releases, filtered_releases, scraper_index,
                 scraper_results, scrape_log, match_log, loaded_file, saves,
                 output_file>>

\* StateManager(data_path / "state.json") of run r
RunLoad(r) ==
    /\ runs[r].pc = "start"
    /\ runs' = [runs EXCEPT ![r] = [pc |-> "loaded",
                                    state |-> load_state(state_file).state]]
    /\ UNCHANGED <<twoRunFrame, state_file, clock>>

\* state_manager.apply_retention(grouped_items) of run r
RunApply(r) ==
    /\ runs[r].pc = "loaded"
    /\ \E its \in ItemLists, now1 \in RunClockValues, drift \in 0..MaxDrift :
          /\ now1 >= clock
          /\ LET a == apply_retention(runs[r].state.track_history, its, now1,
                                      now1 + drift)
             IN  runs' = [runs EXCEPT ![r] =
                            [pc |-> "applied",
                             state |-> [track_history |-> a.history,
                                        last_run |-> isoformat(now1 + drift)]]]
          /\ clock' = now1 + drift
    /\ UNCHANGED <<twoRunFrame, state_file>>

\* state_manager.save_state() of run r
RunSave(r) ==
    /\ runs[r].pc = "applied"
    /\ state_file' = JsonFile(DOMAIN runs[r].state,
                              runs[r].state.track_history,
                              runs[r].state.last_run)
    /\ runs' = [runs EXCEPT ![r].pc = "saved"]
    /\ UNCHANGED <<twoRunFrame, clock>>

TwoRunNext == \E r \in Runs : RunLoad(r) \/ RunApply(r) \/ RunSave(r)

TwoRunSpec == TwoRunInit /\ [][TwoRunNext]_vars

----------------------------------------------------------------------------
(* Claims about the retention store *)

Applied == op = "apply_retention"

history == state.track_history

HasPlaceholderPrefix(uri) == uri[1] = "spotify" /\ uri[2] = "search"

ItemOf(s, uri) == {s[i] : i \in {j \in 1..Len(s) : s[j].spotify_uri = uri}}

RecordedAt(h, uri, d) == uri \in DOMAIN h /\ h[uri].valid /\ h[uri].t = d

(* C1: with a non-decreasing clock, a track whose id was recorded at D is   *)
(* not returned by a call whose clock reads are later than D + 14 days,     *)
(* even when the track is supplied to that call.                            *)
C1_AgedOutIsDropped ==
    (Applied /\ monotone) =>
        \A u \in Uris(items) :
            ( /\ ~HasPlaceholderPrefix(u)
              /\ u \in DOMAIN old_history
              /\ old_history[u].valid
              /\ cutoff_date > old_history[u].t )
            => u \notin Uris(current_items)

(* C2: a call that is given an id whose first-seen timestamp is already     *)
(* recorded does not leave a different timestamp recorded for that id.      *)
C2_NeverRefreshed ==
    Applied =>
        \A u \in Uris(items) :
            ( /\ u \in DOMAIN old_history
              /\ old_history[u].valid
              /\ u \in DOMAIN history )
            => history[u] = old_history[u]

(* C3: the boundary is inclusive: an entry recorded at D is not purged by a *)
(* call at D + 14 days, a supplied item with that id is kept with           *)
(* weeks_in_playlist = 2, and every kept track has weeks_in_playlist =      *)
(* floor(whole days since first-seen / 7).                                  *)
C3_InclusiveBoundary ==
    Applied =>
        /\ \A u \in DOMAIN old_history :
              ( /\ old_history[u].valid
                /\ old_history[u].t + 14 * TicksPerDay = cutoff_date + Window )
              => /\ u \in DOMAIN history
                 /\ history[u] = old_history[u]
                 /\ u \in Uris(items) =>
                       /\ ItemOf(current_items, u) # {}
                       /\ \A it \in ItemOf(current_items, u) :
                             it.weeks_in_playlist = 2
        /\ \A i \in 1..Len(current_items) :
              LET it == current_items[i]
              IN  ~HasPlaceholderPrefix(it.spotify_uri) =>
                      it.weeks_in_playlist =
                          ((now - history[it.spotify_uri].t) \div TicksPerDay) \div 7

C3_Witness ==
    /\ Applied
    /\ \E u \in Uris(items) :
          /\ RecordedAt(old_history, u, cutoff_date)
          /\ RecordedAt(history, u, cutoff_date)
          /\ \E it \in ItemOf(current_items, u) : it.weeks_in_playlist = 2

(* C4: after every call no entry of track_history is older than the cutoff  *)
(* of that call (clock - 14 days), whether or not its id was supplied.       *)
C4_NoStaleEntries ==
    Applied =>
        \A u \in DOMAIN history :
            history[u].valid /\ history[u].t >= cutoff_date

C4_Witness ==
    /\ Applied
    /\ items = <<>>
    /\ RecordedAt(old_history, T1, 0)
    /\ cutoff_date + Window = 15 * TicksPerDay
    /\ T1 \notin DOMAIN history

(* C5: a placeholder item is always returned, with its weeks_in_playlist    *)
(* unchanged, and no key of track_history has the placeholder prefix.       *)
C5_PlaceholderPassThrough ==
    /\ \A u \in DOMAIN history : ~HasPlaceholderPrefix(u)
    /\ Applied =>
          SelectSeq(current_items, LAMBDA it : HasPlaceholderPrefix(it.spotify_uri))
            = SelectSeq(items, LAMBDA it : HasPlaceholderPrefix(it.spotify_uri))

C5_Witness ==
    /\ Applied
    /\ \E i \in 1..Len(items) :
          /\ HasPlaceholderPrefix(items[i].spotify_uri)
          /\ items[i].weeks_in_playlist = 3
          /\ items[i] \in Range(current_items)
    /\ Uris(items) \cap TRACK_URIS # {}

(* C6: a track id absent from track_history on entry is recorded at now,    *)
(* its item is returned with weeks_in_playlist = 0, and last_run = now;     *)
(* from an empty store apply([t1]) at T0 leaves exactly {t1: T0}.           *)
C6_NewIdRecorded ==
    Applied =>
        /\ state.last_run = [valid |-> TRUE, t |-> now]
        /\ \A i \in 1..Len(items) :
              LET u == items[i].spotify_uri
              IN  (~HasPlaceholderPrefix(u) /\ u \notin DOMAIN old_history) =>
                      /\ RecordedAt(history, u, now)
                      /\ ItemOf(current_items, u) =
                             {[items[i] EXCEPT !.weeks_in_playlist = 0]}
        /\ old_history = <<>> =>
              DOMAIN history = {u \in Uris(items) : ~HasPlaceholderPrefix(u)}

C6_Witness ==
    /\ Applied
    /\ old_history = <<>>
    /\ Len(items) = 1
    /\ items[1].spotify_uri = T1
    /\ DOMAIN history = {T1}
    /\ RecordedAt(history, T1, now)
    /\ current_items = <<[items[1] EXCEPT !.weeks_in_playlist = 0]>>

----------------------------------------------------------------------------
(* Claims about the trimming step *)

AfterTrim == pc \in {"trimmed", "final"}

IsPriority(it) ==
    \E k \in 1..Len(priority_items) :
        priority_items[k].spotify_uri = it.spotify_uri

PriorityPositions == {i \in 1..Len(untrimmed_items) : IsPriority(untrimmed_items[i])}

InResult(it) == \E k \in 1..Len(current_items) : current_items[k] = it

(* C7: the list produced by the trimming step has at most target items.     *)
C7_AtMostTarget ==
    AfterTrim => Len(current_items) <= target

C7_Witness ==
    /\ pc = "trimmed"
    /\ Cardinality(PriorityPositions) > target
    /\ Len(untrimmed_items) > Cardinality(PriorityPositions)
    /\ Len(current_items) = target

(* C8: when the priority items of current number at most target, each of    *)
(* them is in the trimmed list; a priority item is left out only of a       *)
(* result that holds no non-priority item.                                  *)
C8_PriorityKept ==
    AfterTrim =>
        /\ Cardinality(PriorityPositions) <= target =>
              \A i \in PriorityPositions : InResult(untrimmed_items[i])
        /\ (\E i \in PriorityPositions : ~InResult(untrimmed_items[i])) =>
              \A k \in 1..Len(current_items) : IsPriority(current_items[k])

C8_Witness ==
    /\ pc = "trimmed"
    /\ Len(untrimmed_items) > target
    /\ PriorityPositions # {}
    /\ Cardinality(PriorityPositions) < target
    /\ 1 \notin PriorityPositions
    /\ \A i \in PriorityPositions : InResult(untrimmed_items[i])
    /\ \E i \in 1..Len(untrimmed_items) :
          i \notin PriorityPositions /\ ~InResult(untrimmed_items[i])

\* the priority list restricted to the items of current, in its own order
PriorityOrder ==
    SelectSeq(priority_items,
              LAMBDA p : \E i \in 1..Len(untrimmed_items) :
                             untrimmed_items[i].spotify_uri = p.spotify_uri)

(* C9: when the priority items of current number at least target, the       *)
(* trimmed list holds no non-priority item and consists of the first target *)
(* items of the priority list (source count descending), so that no         *)
(* priority item is cut while one with fewer sources survives.              *)
C9_TopPrioritySurvives ==
    (AfterTrim /\ Len(untrimmed_items) > target
               /\ Cardinality(PriorityPositions) >= target) =>
        /\ \A k \in 1..Len(current_items) : IsPriority(current_items[k])
        /\ Uris(current_items) = Uris(SubSeq(PriorityOrder, 1, target))
        /\ \A i \in PriorityPositions, k \in 1..Len(current_items) :
              ~InResult(untrimmed_items[i]) =>
                  Len(untrimmed_items[i].sources) <= Len(current_items[k].sources)

(* C10: a current list of at most target items is returned unchanged.       *)
C10_SmallListUnchanged ==
    (AfterTrim /\ Len(untrimmed_items) <= target) =>
        current_items = untrimmed_items

C10_Witness ==
    /\ pc = "trimmed"
    /\ Len(untrimmed_items) = target
    /\ 1 \notin PriorityPositions
    /\ 2 \in PriorityPositions
    /\ current_items = untrimmed_items

----------------------------------------------------------------------------
(* Claims about the Deduplicator *)

Deduplicated == pc = "deduplicated"

\* positions of all_items that hold the identifier uri
Members(uri) == {j \in 1..Len(all_items) : all_items[j].spotify_uri = uri}

Min(S) == CHOOSE x \in S : \A y \in S : x <= y

(* C11: unique_items holds exactly one item per distinct identifier of the  *)
(* input, in the order of the identifiers' first occurrence, and each       *)
(* item's artist, track, album, source and scraped_date are those of the    *)
(* first input item with that identifier.                                   *)
C11_UniqueFirstOccurrence ==
    Deduplicated =>
        /\ Uris(unique_items) = Uris(all_items)
        /\ Len(unique_items) = Cardinality(Uris(all_items))
        /\ \A i, k \in 1..Len(unique_items) :
              i < k => Min(Members(unique_items[i].spotify_uri))
                          < Min(Members(unique_items[k].spotify_uri))
        /\ \A i \in 1..Len(unique_items) :
              LET first == all_items[Min(Members(unique_items[i].spotify_uri))]
                  m     == unique_items[i]
              IN  /\ m.artist = first.artist
                  /\ m.track = first.track
                  /\ m.album = first.album
                  /\ m.source = first.source
                  /\ m.scraped_date = first.scraped_date

C11_Witness ==
    /\ Deduplicated
    /\ Len(all_items) >= 4
    /\ Len(unique_items) = 2
    /\ all_items[1].spotify_uri = all_items[3].spotify_uri
    /\ all_items[2].spotify_uri = all_items[4].spotify_uri
    /\ all_items[1].source # all_items[3].source
    /\ unique_items[1].source = all_items[1].source
    /\ unique_items[2].spotify_uri = all_items[2].spotify_uri

(* C12: a merged item's sources is the duplicate-free, sorted union of the  *)
(* sources of the members of its group, hence a function of the set of      *)
(* members and the same for every order of them.                            *)
C12_SourcesSortedUnion ==
    Deduplicated =>
        \A i \in 1..Len(unique_items) :
            LET m == unique_items[i]
            IN  /\ Range(m.sources) =
                      UNION {Range(all_items[j].sources) :
                                j \in Members(m.spotify_uri)}
                /\ \A a, b \in 1..Len(m.sources) :
                      a < b => StrRank[m.sources[a]] < StrRank[m.sources[b]]

C12_Witness ==
    /\ Deduplicated
    /\ \E i \in 1..Len(unique_items) :
          /\ unique_items[i].sources = <<BANDCAMP, BROOKLYN, PITCHFORK>>
          /\ LET js == Members(unique_items[i].spotify_uri)
             IN  /\ Cardinality(js) = 4
                 /\ all_items[Min(js)].source = PITCHFORK

(* C13: every item of priority_items has at least two distinct source names *)
(* in its sources.                                                          *)
C13_PriorityMultiSource ==
    Deduplicated =>
        \A i \in 1..Len(priority_items) :
            Cardinality(Range(priority_items[i].sources)) >= 2

\* the album key of an item, read off its fields
KeyOf(it) == <<lower[it.artist], lower[it.album]>>

Count(s, x) == Cardinality({i \in 1..Len(s) : s[i] = x})

IsPermutation(s, t) ==
    /\ Len(s) = Len(t)
    /\ \A x \in Range(s) \cup Range(t) : Count(s, x) = Count(t, x)

Contiguous(s) ==
    \A i, k \in 1..Len(s) :
        (i < k /\ KeyOf(s[i]) = KeyOf(s[k])) =>
            \A j \in i..k : KeyOf(s[j]) = KeyOf(s[i])

(* C17: group_by_album returns a permutation of its input in which any two  *)
(* items with the same (lowercase artist, lowercase album) key have no item *)
(* of another key between them.                                             *)
C17_GroupedPermutationContiguous ==
    Deduplicated =>
        /\ IsPermutation(grouped_items, unique_items)
        /\ Contiguous(grouped_items)

C17_Witness ==
    /\ Deduplicated
    /\ ~Contiguous(unique_items)
    /\ grouped_items # unique_items
    /\ Contiguous(grouped_items)

----------------------------------------------------------------------------
(* Claims about the GenreFilter *)

Filtered == pc \in {"filtered", "refiltered"}

\* p occurs in g as a run of consecutive characters
Infix(p, g) ==
    \E off \in 0..(Len(g) - Len(p)) : \A k \in 1..Len(p) : g[off + k] = p[k]

TagMatches(tag, entry) == Infix(entry, tag) \/ Infix(tag, entry)

\* the decision order of the claim, first match wins
Reference(tags, include, exclude) ==
    CASE \E t \in Range(tags), e \in Range(exclude) : TagMatches(t, e) -> FALSE
      [] tags = <<>> -> TRUE
      [] \E t \in Range(tags), e \in Range(include) : TagMatches(t, e) -> TRUE
      [] Len(tags) >= 3 -> FALSE
      [] OTHER -> TRUE

(* C14: a release is kept by the filter exactly when the decision order     *)
(* (exclude match rejects; no tags accepts; include match accepts; three or *)
(* more tags rejects; else accepts) accepts its lower-cased tags.           *)
C14_DecisionOrder ==
    Filtered =>
        \A i \in 1..Len(all_releases) :
            (all_releases[i] \in Range(filtered_releases))
                <=> Reference(lower_all(all_releases[i].genres),
                              genre_filter.include, genre_filter.exclude)

C14_Witness ==
    /\ pc = "filtered"
    /\ Len(all_releases) = 3
    /\ all_releases[1].genres = <<TagPunk, TagEdm>>
    /\ all_releases[2].genres = <<TagJazz, TagFolk, TagJazz>>
    /\ all_releases[3].genres = <<TagPunk>>
    /\ filtered_releases = <<all_releases[3]>>

DefaultConfig == filter_config = [include_genres |-> <<>>, exclude_genres |-> <<>>]

(* C15: with the default configuration a release all of whose tags are      *)
(* entries of INCLUDE_GENRES is kept by the filter.                         *)
C15_IncludeEntriesKept ==
    (Filtered /\ DefaultConfig) =>
        \A i \in 1..Len(all_releases) :
            ( /\ all_releases[i].genres # <<>>
              /\ Range(all_releases[i].genres) \subseteq Range(INCLUDE_GENRES) )
            => all_releases[i] \in Range(filtered_releases)

IsSubList(s, t) ==
    \E f \in [1..Len(s) -> 1..Len(t)] :
        /\ \A i, k \in 1..Len(s) : i < k => f[i] < f[k]
        /\ \A i \in 1..Len(s) : s[i] = t[f[i]]

(* C16: filtering the result of filter again returns it unchanged; the      *)
(* result is an order-preserving sub-list of the argument, and the filter's *)
(* include and exclude lists are those it was constructed with.             *)
C16_FilterIdempotent ==
    /\ Filtered => IsSubList(filtered_releases, all_releases)
    /\ pc = "refiltered" => filtered_releases = all_releases
    /\ pc \in {"constructed", "filtered", "refiltered"} =>
          genre_filter = GenreFilterInit(filter_config.include_genres,
                                         filter_config.exclude_genres)

C16_Witness ==
    /\ pc = "refiltered"
    /\ Len(all_releases) = 1
    /\ filtered_releases = all_releases
    /\ genre_filter.exclude = <<lower_str(TagEdm)>>

----------------------------------------------------------------------------
(* Claims about a whole run *)

Final == pc = "final"

(* C18: the list given to the output is album-contiguous also when Phase 6  *)
(* trimmed: any two final items with the same (artist, album) key have no   *)
(* item of another key between them, and the final list is a permutation of *)
(* the trimmed list.                                                        *)
C18_FinalContiguousAfterTrim ==
    Final =>
        /\ Contiguous(final_items)
        /\ IsPermutation(final_items, current_items)

C18_Witness ==
    /\ Final
    /\ Len(untrimmed_items) > target
    /\ Contiguous(untrimmed_items)
    /\ ~Contiguous(current_items)
    /\ final_items # current_items

NoDuplicateUris(s) ==
    \A i, k \in 1..Len(s) : s[i].spotify_uri = s[k].spotify_uri => i = k

(* C19: the final playlist of a run has no two items with the same          *)
(* identifier and at most TARGET_PLAYLIST_SIZE items, whatever was scraped  *)
(* and whatever the matcher returned.                                       *)
C19_FinalDeduplicatedBounded ==
    Final =>
        /\ NoDuplicateUris(final_items)
        /\ Len(final_items) <= target

C19_Witness ==
    /\ Final
    /\ ~NoDuplicateUris(all_items)
    /\ Len(untrimmed_items) > target
    /\ Len(final_items) = target

RECURSIVE Contributions(_)
Contributions(log) ==
    IF log = <<>> THEN <<>>
    ELSE (IF Head(log).raised THEN <<>> ELSE Head(log).releases)
            \o Contributions(Tail(log))

ScrapingOver == pc \notin {"start", "load_failed", "scraping"}

HasItemFrom(s, src) == \E i \in 1..Len(s) : s[i].source = src

(* C20: a scraper whose scrape raises contributes no release and a count of *)
(* zero, and the run goes on: every scraper of the list is still run, in    *)
(* the list's order, the run ends early only when nothing at all was        *)
(* scraped, and the releases of the other scrapers are filtered and matched.*)
C20_ScraperFailureIsolated ==
    /\ all_releases = Contributions(scrape_log)
    /\ scraper_index = Len(scrape_log) + 1
    /\ \A i \in 1..Len(scrape_log) :
          /\ scrape_log[i].raised =>
                /\ SCRAPERS[i] \in DOMAIN scraper_results
                /\ scraper_results[SCRAPERS[i]] = 0
          /\ \A k \in 1..Len(scrape_log[i].releases) :
                scrape_log[i].releases[k].source = SCRAPERS[i]
    /\ ScrapingOver => Len(scrape_log) = Len(SCRAPERS)
    /\ pc = "exited" => all_releases = <<>>
    /\ pc \in {"genre_filtered", "matched", "deduplicated", "retained",
               "trimmed", "final"} =>
          /\ filtered_releases # <<>>
          /\ IsSubList(filtered_releases, all_releases)
    /\ pc \in {"matched", "deduplicated", "retained", "trimmed", "final"} =>
          \A i \in 1..Len(filtered_releases) :
              HasItemFrom(all_items, filtered_releases[i].source)

C20_Witness ==
    /\ Final
    /\ scrape_log[1].raised
    /\ scrape_log[2].raised
    /\ ~scrape_log[3].raised
    /\ scrape_log[4].raised
    /\ HasItemFrom(final_items, PITCHFORK)

----------------------------------------------------------------------------
(* Further claims about the retention store *)

WithWeeksOf(kept, given) ==
    [i \in 1..Len(kept) |->
        [kept[i] EXCEPT !.weeks_in_playlist = given[i].weeks_in_playlist]]

C30_WeeksInRange ==
    Applied =>
        \A i \in 1..Len(current_items) :
            ~HasPlaceholderPrefix(current_items[i].spotify_uri) =>
                /\ current_items[i].weeks_in_playlist >= 0
                /\ current_items[i].weeks_in_playlist <= RETENTION_WEEKS

----------------------------------------------------------------------------
(* Further claims about the Deduplicator *)

FirstWithKey(s, it) == Min({j \in 1..Len(s) : KeyOf(s[j]) = KeyOf(it)})

PositionOf(s, it) == Min({j \in 1..Len(s) : s[j] = it})

(* C26: in grouped_items the groups are in the order in which their key     *)
(* first occurs in unique_items, the items of one group are in their        *)
(* order in unique_items, and grouping grouped_items again returns it.      *)
C26_GroupOrderIdempotent ==
    Deduplicated =>
        /\ IsPermutation(grouped_items, unique_items)
        /\ \A i, k \in 1..Len(grouped_items) :
              i < k =>
                 IF KeyOf(grouped_items[i]) = KeyOf(grouped_items[k])
                 THEN PositionOf(unique_items, grouped_items[i])
                         < PositionOf(unique_items, grouped_items[k])
                 ELSE FirstWithKey(unique_items, grouped_items[i])
                         < FirstWithKey(unique_items, grouped_items[k])
        /\ group_by_album(grouped_items) = grouped_items

C26_Witness ==
    /\ Deduplicated
    /\ Len(unique_items) = 3
    /\ KeyOf(unique_items[1]) = KeyOf(unique_items[3])
    /\ KeyOf(unique_items[1]) # KeyOf(unique_items[2])
    /\ grouped_items = <<unique_items[1], unique_items[3], unique_items[2]>>

----------------------------------------------------------------------------
(* Claims about the matcher in a run *)

IsPlaceholderOf(it, release) ==
    /\ HasPlaceholderPrefix(it.spotify_uri)
    /\ it.artist = release.artist
    /\ it.source = release.source
    /\ it.scraped_date = release.scraped_date

(* C21 as stated: match_release never returns an empty list, and when the   *)
(* search found nothing it returns exactly one item whose identifier has    *)
(* the placeholder prefix, whose artist is the release's artist and whose   *)
(* track (title) field is the release's title.                              *)
C21_PlaceholderRawTitle ==
    \A i \in 1..Len(match_log) :
        /\ match_log[i].items # <<>>
        /\ match_log[i].found = <<>> =>
              /\ Len(match_log[i].items) = 1
              /\ IsPlaceholderOf(match_log[i].items[1], match_log[i].release)
              /\ match_log[i].items[1].track = match_log[i].release.title

(* C21 amended: as above, but the release's title is in the track field     *)
(* for a track release and in the album field for an album release, whose   *)
(* track field is the title wrapped as "[Album: <title>]".                  *)
C21_PlaceholderCarriesTitle ==
    \A i \in 1..Len(match_log) :
        LET release == match_log[i].release
            its     == match_log[i].items
        IN  /\ its # <<>>
            /\ match_log[i].found = <<>> =>
                  /\ Len(its) = 1
                  /\ IsPlaceholderOf(its[1], release)
                  /\ IF release.release_type = "track"
                     THEN its[1].track = release.title /\ its[1].album = ""
                     ELSE /\ its[1].album = release.title
                          /\ its[1].track = AlbumLabel[release.title]

C21_Witness ==
    /\ Final
    /\ \E i, j, k \in 1..Len(match_log) :
          /\ match_log[i].found = <<>>
          /\ match_log[i].release.release_type = "album"
          /\ match_log[j].found = <<>>
          /\ match_log[j].release.release_type = "track"
          /\ match_log[k].found # <<>>

(* C28: a release that GenreFilter rejects is never given to match_release, *)
(* also when the filter rejects every scraped release.                      *)
C28_RejectedNeverMatched ==
    \A i \in 1..Len(match_log) :
        should_include(genre_filter, match_log[i].release)

----------------------------------------------------------------------------
(* Claims about the state file and the configuration in a run *)

Loaded == pc \notin {"start", "load_failed"}

UnusableFile(file) ==
    \/ file.kind \in {"missing", "unreadable", "not_json"}
    \/ file.kind = "json" /\ "track_history" \notin file.keys

(* C22: when state.json is missing, unreadable, not JSON or JSON without a  *)
(* track_history map, the run does not fail in loading it or in             *)
(* apply_retention, and the loaded store has an empty track_history.        *)
C22_LoadNeverFails ==
    UnusableFile(loaded_file) =>
        /\ pc \notin {"load_failed"}
        /\ pc = "crashed" => output_file.written \/ Applied
        /\ pc = "scraping" =>
              /\ "track_history" \in DOMAIN state
              /\ state.track_history = NoHistory

(* C27: the store is loaded before apply_retention; save_state is called at *)
(* most once in a run, and only after apply_retention and after the output  *)
(* was generated; until then, and in a run that ends early, state.json      *)
(* holds what it held when the run started.                                 *)
C27_SavedOnceAtEnd ==
    /\ Applied => Loaded
    /\ saves <= 1
    /\ saves = 1 => (pc = "done" /\ Applied /\ output_file.written)
    /\ pc # "done" => (saves = 0 /\ state_file = loaded_file)
    /\ pc = "exited" => ~Applied

C27_Witness ==
    /\ pc = "done"
    /\ saves = 1
    /\ loaded_file.kind = "json"
    /\ state_file.kind = "json"
    /\ state_file # loaded_file
    /\ DOMAIN state_file.track_history # DOMAIN loaded_file.track_history

(* C24: with TARGET_PLAYLIST_SIZE <= 0 the run stops before scraping: no    *)
(* scraper is run, no playlist file is written and state.json is not        *)
(* written.                                                                 *)
C24_InvalidConfigFatal ==
    target <= 0 =>
        /\ scrape_log = <<>>
        /\ ~output_file.written
        /\ saves = 0
        /\ state_file = loaded_file

----------------------------------------------------------------------------
(* Claims about overlapping runs *)

BothSaved == \A r \in Runs : runs[r].pc = "saved"

(* C23: once both overlapping runs have saved, state.json holds every id    *)
(* that either run has recorded and that is not older than the cutoff, with *)
(* a timestamp no later than the one that run recorded.                     *)
C23_NoLostUpdate ==
    BothSaved =>
        \A r \in Runs :
            \A u \in DOMAIN runs[r].state.track_history :
                LET e == runs[r].state.track_history[u]
                IN  (e.valid /\ e.t >= clock - Window) =>
                        /\ u \in DOMAIN state_file.track_history
                        /\ state_file.track_history[u].t <= e.t

============================================================================
